---- MODULE Spec2Model ----
(***************************************************************************)
(* The floating overlay panels of the TardQuest standalone shell:          *)
(* leaderboard and apitest (HttpData/AppData/scripts/tardboard.js),        *)
(* tardtest (unnamed/part_004), the shared focus counter (windowfocus.js)  *)
(* and the password gate (devtools.js).                                    *)
(*                                                                         *)
(* All handlers run on one event loop, so one action is one dispatched DOM *)
(* event with every listener it reaches.  The page markup (index.html and  *)
(* its stylesheet) is not part of the sources; what the model takes from   *)
(* it is stated where it is used: the close control sits inside the title  *)
(* bar, the title bar inside the panel element, and the stylesheet hides a *)
(* panel whose inline display is empty.                                    *)
(***************************************************************************)
EXTENDS Integers, Sequences, FiniteSets, TLC

VARIABLES
    display,        \* [panel -> inline style.display: "none", "" or "flex"]
    styleLeft,      \* [panel -> inline style.left in px, 0 when unset]
    styleTop,       \* [panel -> inline style.top in px, 0 when unset]
    zIndex,         \* [panel -> inline style.zIndex, 0 when unset]
    currentZIndex,  \* windowfocus.js: let currentZIndex
    zLog,           \* the values bringWindowToFront has assigned, in call order
    loaded,         \* leaderboardLoaded / tardtestLoaded / apitestLoaded
    content,        \* [panel -> number of iframe elements in its content element]
    dragState,      \* [panel -> [isDragging, dragOffsetX, dragOffsetY]]
    winListeners,   \* panels whose dragMove/dragEnd are registered on window
    pointer,        \* [pointer id -> the panel whose title bar captures it, or "none"]
    innerWidth,     \* window.innerWidth
    innerHeight,    \* window.innerHeight
    pendingAction,  \* devtools.js: let pendingAction ("null" for null)
    modalDisplay,   \* passwordModal.style.display
    justOpened,     \* history: panels whose latest interaction was an open request
                    \* that found them hidden
    probe           \* arguments and results of the clamp taken as a function (ClampSpec)

vars == <<display, styleLeft, styleTop, zIndex, currentZIndex, zLog, loaded,
          content, dragState, winListeners, pointer, innerWidth,
          innerHeight, pendingAction, modalDisplay, justOpened, probe>>

panelVars == <<display, styleLeft, styleTop, zIndex, currentZIndex, zLog, loaded,
               content, dragState, winListeners, pointer, innerWidth,
               innerHeight, pendingAction, modalDisplay, justOpened>>

-----------------------------------------------------------------------------
(* Bounds of the model *)

\* bringWindowToFront calls explored beyond the initial counter value
MaxFocusCalls == 3

\* the same, where two pointers are followed (enough for two title-bar grabs)
MaxTouchFocusCalls == 4

-----------------------------------------------------------------------------
(* Program constants *)

windows == {"leaderboard", "tardtest", "apitest"}

InitialZIndex == 2000

border == 4

titlebarHeight == 20

toolbarHeight == 25

topOffset == titlebarHeight + toolbarHeight

\* The toolbar height resizeFrame reserves above the game frame.
resizeFrameToolbarHeight == 23

\* style.zIndex = '2000' in toggleTardTest / toggleAPITest
ToggleZIndex == 2000

\* style.zIndex = '2001' in checkPassword
PasswordZIndex == 2001

\* The leaderboard has no inline default: its first place (left = top) comes
\* from the page's stylesheet.
LeaderboardCssPos == 60

\* style.left = style.top = '100px' (tardtest), '150px' (apitest).
DefaultPos(w) ==
    CASE w = "tardtest" -> 100
      [] w = "apitest" -> 150
      [] OTHER -> LeaderboardCssPos

\* Rendered size of a panel (getBoundingClientRect().width/height while shown).
FootprintW == 200

FootprintH == 150

Pointers == {1}

\* Two pointers at once: the mouse and a touch or pen contact.
TouchPointers == {1, 2}

\* Viewport sizes the host window reports.
Viewports == {<<800, 600>>, <<150, 150>>}

\* Where inside the title bar a pointer goes down (clientX - rect.left, clientY - rect.top).
Grabs == {<<20, 10>>}

\* clientX/clientY of pointer-move events.
MovePoints == {<<700, 50>>, <<130, 120>>}

-----------------------------------------------------------------------------
(* Helpers *)

Max(a, b) == IF a >= b THEN a ELSE b

Min(a, b) == IF a <= b THEN a ELSE b

\* parseInt(style.x, 10) || d : parseInt gives NaN for an unset style and 0 for
\* "0px"; both are falsy, so d is taken.  n + "px" parses back to n.
ParseIntOr(px, d) == IF px = 0 THEN d ELSE px

\* element.getBoundingClientRect(): all zero while the element is not rendered.
Rect(w, disp, sl, st) ==
    IF disp = "flex"
    THEN [left |-> ParseIntOr(sl, DefaultPos(w)), top |-> ParseIntOr(st, DefaultPos(w)),
          width |-> FootprintW, height |-> FootprintH]
    ELSE [left |-> 0, top |-> 0, width |-> 0, height |-> 0]

\* Clamp with the lower bound taken before the upper bound.
ClampMinLast(left, top, rect, parentW, parentH) ==
    LET maxLeft == parentW - rect.width - border
        maxTop == parentH - rect.height - border
    IN  <<Min(Max(border, left), maxLeft), Min(Max(topOffset + border, top), maxTop)>>

\* Clamp with the left margin forgotten in the lower bound.
ClampNoLeftMargin(left, top, rect, parentW, parentH) ==
    LET maxLeft == parentW - rect.width - border
        maxTop == parentH - rect.height - border
    IN  <<Max(0, Min(left, maxLeft)), Max(topOffset + border, Min(top, maxTop))>>

\* The clamp every panel applies (the six copies in dragMove, apitestDragMove,
\* tardtestDragMove, clampTardboardPosition, clampAPITestPosition and
\* clampTardTestPosition are the same arithmetic).
Clamp(left, top, rect, parentW, parentH) ==
    LET maxLeft == parentW - rect.width - border
        maxTop == parentH - rect.height - border
    IN  <<Max(border, Min(left, maxLeft)), Max(topOffset + border, Min(top, maxTop))>>

\* clampTardboardPosition: falls back to the rendered place.
clampTardboardPosition(disp, sl, st, parentW, parentH) ==
    LET rect == Rect("leaderboard", disp, sl, st)
    IN  Clamp(ParseIntOr(sl, rect.left), ParseIntOr(st, rect.top), rect, parentW, parentH)

\* clampTardTestPosition / clampAPITestPosition: fall back to the literal default.
clampToolPosition(w, disp, sl, st, parentW, parentH) ==
    LET rect == Rect(w, disp, sl, st)
    IN  Clamp(ParseIntOr(sl, DefaultPos(w)), ParseIntOr(st, DefaultPos(w)), rect,
              parentW, parentH)

clampPosition(w, disp, sl, st, parentW, parentH) ==
    IF w = "leaderboard"
    THEN clampTardboardPosition(disp, sl, st, parentW, parentH)
    ELSE clampToolPosition(w, disp, sl, st, parentW, parentH)

\* The focus state bringWindowToFront works on.
Focus == [cur |-> currentZIndex, z |-> zIndex, log |-> zLog]

\* bringWindowToFront without the increment.
bringWindowToFrontNoIncrement(f, w) ==
    [cur |-> f.cur,
     z |-> [f.z EXCEPT ![w] = f.cur],
     log |-> Append(f.log, f.cur)]

bringWindowToFront(f, w) ==
    [cur |-> f.cur + 1,
     z |-> [f.z EXCEPT ![w] = f.cur + 1],
     log |-> Append(f.log, f.cur + 1)]

SetFocus(f) ==
    /\ currentZIndex' = f.cur
    /\ zIndex' = f.z
    /\ zLog' = f.log

FocusCalls == IF DOMAIN pointer = TouchPointers THEN MaxTouchFocusCalls ELSE MaxFocusCalls

FocusRoom(n) == currentZIndex + n <= InitialZIndex + FocusCalls

\* document.createElement('iframe') + content.appendChild(iframe)
appendIframe(w) == content' = [content EXCEPT ![w] = @ + 1]

\* content.innerHTML = ''
clearContent(w) == content' = [content EXCEPT ![w] = 0]

-----------------------------------------------------------------------------
(* Construction *)

NoProbe == [stage |-> 0]

\* Every panel starts hidden and unloaded.  The leaderboard's change handler
\* opens only from display 'none'; the tools' toggles also accept '', so their
\* inline display may start as either.
InitWith(pids) ==
    /\ display \in {d \in [windows -> {"none", ""}] : d["leaderboard"] = "none"}
    /\ styleLeft = [w \in windows |-> 0]
    /\ styleTop = [w \in windows |-> 0]
    /\ zIndex = [w \in windows |-> 0]
    /\ currentZIndex = InitialZIndex
    /\ zLog = <<>>
    /\ loaded = [w \in windows |-> FALSE]
    /\ content = [w \in windows |-> 0]
    /\ dragState = [w \in windows |->
                      [isDragging |-> FALSE, dragOffsetX |-> 0, dragOffsetY |-> 0]]
    /\ winListeners = {}
    /\ pointer = [p \in pids |-> "none"]
    /\ innerWidth = 800
    /\ innerHeight = 600
    /\ pendingAction = "null"
    /\ modalDisplay = "none"
    /\ justOpened = [w \in windows |-> FALSE]

InitPanels == InitWith(Pointers)

Init == InitPanels /\ probe = NoProbe

-----------------------------------------------------------------------------
(* Show / hide *)

\* History only: the panels in `opened` were just opened from hidden, the
\* other panels in `touched` were interacted with in some other way.
Interact(opened, touched) ==
    justOpened' = [w \in windows |->
                     IF w \in opened THEN TRUE
                     ELSE IF w \in touched THEN FALSE ELSE justOpened[w]]

SetPosition(w, pos) ==
    /\ styleLeft' = [styleLeft EXCEPT ![w] = pos[1]]
    /\ styleTop' = [styleTop EXCEPT ![w] = pos[2]]

\* A hide that forgets loaded = false.
hidePanelKeepsLoaded(w) ==
    /\ display' = [display EXCEPT ![w] = "none"]
    /\ clearContent(w)
    /\ UNCHANGED loaded

\* display = 'none'; content.innerHTML = ''; loaded = false
hidePanel(w) ==
    /\ display' = [display EXCEPT ![w] = "none"]
    /\ clearContent(w)
    /\ loaded' = [loaded EXCEPT ![w] = FALSE]

\* if (!loaded) { create and append the iframe; loaded = true }
loadContent(w) ==
    IF ~loaded[w]
    THEN appendIframe(w) /\ loaded' = [loaded EXCEPT ![w] = TRUE]
    ELSE UNCHANGED <<content, loaded>>

\* onlineSelect 'change' with value 'tardboard'
onlineSelectChange ==
    LET w == "leaderboard" IN
    /\ IF display[w] = "none"
       THEN /\ display' = [display EXCEPT ![w] = "flex"]
            /\ loadContent(w)
            /\ SetPosition(w, clampTardboardPosition("flex", styleLeft[w], styleTop[w],
                                                     innerWidth, innerHeight))
       ELSE /\ hidePanel(w)
            /\ UNCHANGED <<styleLeft, styleTop>>
    /\ UNCHANGED <<zIndex, currentZIndex, zLog, dragState, winListeners, pointer,
                   innerWidth, innerHeight, pendingAction, modalDisplay, probe>>
    /\ Interact(IF display[w] = "none" THEN {w} ELSE {}, {w})

\* 'openTardTest' event
toggleTardTest ==
    LET w == "tardtest" IN
    /\ IF display[w] = "none" \/ display[w] = ""
       THEN /\ FocusRoom(1)
            /\ display' = [display EXCEPT ![w] = "flex"]
            /\ SetFocus(bringWindowToFront(
                   [Focus EXCEPT !.z = [zIndex EXCEPT ![w] = ToggleZIndex]], w))
            /\ loadContent(w)
            /\ SetPosition(w, clampToolPosition(w, "flex", DefaultPos(w), DefaultPos(w),
                                                innerWidth, innerHeight))
       ELSE /\ hidePanel(w)
            /\ UNCHANGED <<styleLeft, styleTop, zIndex, currentZIndex, zLog>>
    /\ UNCHANGED <<dragState, winListeners, pointer, innerWidth, innerHeight,
                   pendingAction, modalDisplay, probe>>
    /\ Interact(IF display[w] \in {"none", ""} THEN {w} ELSE {}, {w})

\* 'openAPITest' event
toggleAPITest ==
    LET w == "apitest" IN
    /\ IF display[w] = "none" \/ display[w] = ""
       THEN /\ display' = [display EXCEPT ![w] = "flex"]
            /\ zIndex' = [zIndex EXCEPT ![w] = ToggleZIndex]
            /\ loadContent(w)
            /\ SetPosition(w, clampToolPosition(w, "flex", DefaultPos(w), DefaultPos(w),
                                                innerWidth, innerHeight))
       ELSE /\ hidePanel(w)
            /\ UNCHANGED <<styleLeft, styleTop, zIndex>>
    /\ UNCHANGED <<currentZIndex, zLog, dragState, winListeners, pointer, innerWidth,
                   innerHeight, pendingAction, modalDisplay, probe>>
    /\ Interact(IF display[w] \in {"none", ""} THEN {w} ELSE {}, {w})

\* 'click' on closeLeaderboardBtn / closeTardtestBtn / closeApitestBtn
closeBtnClick(w) ==
    /\ display[w] = "flex"
    /\ hidePanel(w)
    /\ UNCHANGED <<styleLeft, styleTop, zIndex, currentZIndex, zLog, dragState,
                   winListeners, pointer, innerWidth, innerHeight, pendingAction,
                   modalDisplay, probe>>
    /\ Interact({}, {w})

-----------------------------------------------------------------------------
(* Pointer events *)

\* How many pointerdown listeners on the panel element call bringWindowToFront:
\* setupWindowFocus registers one on every panel; tardtest and apitest register
\* one more of their own.
WindowFocusListeners(w) == IF w = "leaderboard" THEN 1 ELSE 2

\* Does the title-bar pointerdown handler itself call bringWindowToFront?
TitlebarFocuses(w) == w # "leaderboard"

RECURSIVE bringTimes(_, _, _)
bringTimes(f, w, n) == IF n = 0 THEN f ELSE bringTimes(bringWindowToFront(f, w), w, n - 1)

\* A drag listener put on the whole panel instead of its title bar.
StartsDragAnywhere(target) == target # "close"

\* A title-bar listener without its close-button test.
StartsDragOnCloseToo(target) == target \in {"titlebar", "close"}

\* The drag-start listener sits on the title bar and returns early when the
\* event's target is the close control.
StartsDrag(target) == target = "titlebar"

\* A drag start that sets the flag and takes the capture but registers nothing.
dragStartNoListeners(w, pid, clientX, clientY) ==
    LET rect == Rect(w, display[w], styleLeft[w], styleTop[w]) IN
    /\ dragState' = [dragState EXCEPT ![w] =
                       [isDragging |-> TRUE,
                        dragOffsetX |-> clientX - rect.left,
                        dragOffsetY |-> clientY - rect.top]]
    /\ pointer' = [pointer EXCEPT ![pid] = w]
    /\ UNCHANGED winListeners

\* The title-bar pointerdown handler past its close-button test.
dragStart(w, pid, clientX, clientY) ==
    LET rect == Rect(w, display[w], styleLeft[w], styleTop[w]) IN
    /\ dragState' = [dragState EXCEPT ![w] =
                       [isDragging |-> TRUE,
                        dragOffsetX |-> clientX - rect.left,
                        dragOffsetY |-> clientY - rect.top]]
    /\ pointer' = [pointer EXCEPT ![pid] = w]
    /\ winListeners' = winListeners \cup {w}

\* 'pointerdown' on a shown panel: on its title bar, on the close control
\* inside the title bar, or elsewhere on its body.  The event bubbles from the
\* title bar to the panel element.
PointerDown(w, target, pid, grab) ==
    LET rect == Rect(w, display[w], styleLeft[w], styleTop[w])
        onBar == target = "titlebar"
        calls == WindowFocusListeners(w) + (IF onBar /\ TitlebarFocuses(w) THEN 1 ELSE 0)
    IN
    /\ display[w] = "flex"
    /\ pointer[pid] = "none"
    /\ FocusRoom(calls)
    /\ UNCHANGED <<display, styleLeft, styleTop, loaded, content, innerWidth,
                   innerHeight, pendingAction, modalDisplay, probe>>
    /\ IF StartsDrag(target)
       THEN dragStart(w, pid, rect.left + grab[1], rect.top + grab[2])
       ELSE UNCHANGED <<dragState, winListeners, pointer>>
    /\ SetFocus(bringTimes(Focus, w, calls))
    /\ Interact({}, {w})

\* A drag-move that forgets the grab offset: the panel's corner jumps to the pointer.
dragMoveNoOffset(w, clientX, clientY) ==
    Clamp(clientX, clientY,
          Rect(w, display[w], styleLeft[w], styleTop[w]), innerWidth, innerHeight)

\* dragMove / apitestDragMove / tardtestDragMove: the place the handler writes.
dragMove(w, clientX, clientY) ==
    Clamp(clientX - dragState[w].dragOffsetX, clientY - dragState[w].dragOffsetY,
          Rect(w, display[w], styleLeft[w], styleTop[w]), innerWidth, innerHeight)

\* 'pointermove' reaching window: every registered drag-move handler runs.
PointerMove(pt) ==
    LET moved(w) == w \in winListeners /\ dragState[w].isDragging IN
    /\ UNCHANGED <<display, zIndex, currentZIndex, zLog, loaded, content,
                   dragState, winListeners, pointer, innerWidth, innerHeight,
                   pendingAction, modalDisplay, probe>>
    /\ styleLeft' = [w \in windows |->
                       IF moved(w) THEN dragMove(w, pt[1], pt[2])[1] ELSE styleLeft[w]]
    /\ styleTop' = [w \in windows |->
                      IF moved(w) THEN dragMove(w, pt[1], pt[2])[2] ELSE styleTop[w]]
    /\ Interact({}, {w \in windows : moved(w)})

\* A drag end that clears the flag but leaves its window listeners registered.
PointerUpKeepsListeners(pid) ==
    /\ dragState' = [w \in windows |->
                       IF w \in winListeners
                       THEN [dragState[w] EXCEPT !.isDragging = FALSE]
                       ELSE dragState[w]]
    /\ pointer' = [pointer EXCEPT ![pid] = "none"]
    /\ UNCHANGED <<display, styleLeft, styleTop, zIndex, currentZIndex, zLog, loaded,
                   content, winListeners, innerWidth, innerHeight, pendingAction,
                   modalDisplay, probe>>
    /\ Interact({}, winListeners)

\* dragEnd / apitestDragEnd / tardtestDragEnd for every registered handler, on
\* a 'pointerup' reaching window (the pointer went down on a panel or anywhere
\* else on the page); the pointer's capture ends with it.
PointerUp(pid) ==
    /\ UNCHANGED <<display, styleLeft, styleTop, zIndex, currentZIndex, zLog, loaded,
                   content, innerWidth, innerHeight, pendingAction,
                   modalDisplay, probe>>
    /\ dragState' = [w \in windows |->
                       IF w \in winListeners
                       THEN [dragState[w] EXCEPT !.isDragging = FALSE]
                       ELSE dragState[w]]
    /\ winListeners' = {}
    /\ pointer' = [pointer EXCEPT ![pid] = "none"]
    /\ Interact({}, winListeners)

\* The pointer goes away with no 'pointerup' delivered to window (pointercancel,
\* lost capture): no handler of these scripts listens for it.
PointerCancel(pid) ==
    /\ pointer[pid] # "none"
    /\ pointer' = [pointer EXCEPT ![pid] = "none"]
    /\ UNCHANGED <<display, styleLeft, styleTop, zIndex, currentZIndex, zLog, loaded,
                   content, dragState, winListeners, innerWidth, innerHeight,
                   pendingAction, modalDisplay, probe>>
    /\ UNCHANGED justOpened

-----------------------------------------------------------------------------
(* Viewport *)

\* A resize whose reclamp is put off to a later timer, like resizeFrame's.
ResizeDebounced(vp) ==
    /\ <<innerWidth, innerHeight>> # vp
    /\ innerWidth' = vp[1]
    /\ innerHeight' = vp[2]
    /\ UNCHANGED <<display, styleLeft, styleTop, zIndex, currentZIndex, zLog, loaded,
                   content, dragState, winListeners, pointer, pendingAction,
                   modalDisplay, justOpened, probe>>

\* A resize that, besides reclamping, drops every drag in progress.
ResizeEndsDrags(vp) ==
    LET reclamp(w) == display[w] # "none"
        pos(w) == clampPosition(w, display[w], styleLeft[w], styleTop[w], vp[1], vp[2])
    IN
    /\ <<innerWidth, innerHeight>> # vp
    /\ innerWidth' = vp[1]
    /\ innerHeight' = vp[2]
    /\ styleLeft' = [w \in windows |-> IF reclamp(w) THEN pos(w)[1] ELSE styleLeft[w]]
    /\ styleTop' = [w \in windows |-> IF reclamp(w) THEN pos(w)[2] ELSE styleTop[w]]
    /\ dragState' = [w \in windows |-> [dragState[w] EXCEPT !.isDragging = FALSE]]
    /\ winListeners' = {}
    /\ UNCHANGED <<display, zIndex, currentZIndex, zLog, loaded, content,
                   pointer, pendingAction, modalDisplay, justOpened, probe>>

\* window 'resize': the three resize listeners, each guarded by display !== 'none'.
Resize(vp) ==
    LET reclamp(w) == display[w] # "none"
        pos(w) == clampPosition(w, display[w], styleLeft[w], styleTop[w], vp[1], vp[2])
    IN
    /\ <<innerWidth, innerHeight>> # vp
    /\ innerWidth' = vp[1]
    /\ innerHeight' = vp[2]
    /\ styleLeft' = [w \in windows |-> IF reclamp(w) THEN pos(w)[1] ELSE styleLeft[w]]
    /\ styleTop' = [w \in windows |-> IF reclamp(w) THEN pos(w)[2] ELSE styleTop[w]]
    /\ UNCHANGED <<display, zIndex, currentZIndex, zLog, loaded, content,
                   dragState, winListeners, pointer, pendingAction, modalDisplay, probe>>
    /\ UNCHANGED justOpened

-----------------------------------------------------------------------------
(* Password gate (devtools.js) *)

\* devSelect 'change' with value 'tardtest' or 'apitest'
devSelectChange(action) ==
    /\ pendingAction' = action
    /\ modalDisplay' = "flex"
    /\ UNCHANGED <<display, styleLeft, styleTop, zIndex, currentZIndex, zLog, loaded,
                   content, dragState, winListeners, pointer, innerWidth,
                   innerHeight, probe>>
    /\ UNCHANGED justOpened

\* Cancel button, Escape in the input, click on the modal backdrop.
hidePasswordModal ==
    /\ modalDisplay = "flex"
    /\ modalDisplay' = "none"
    /\ pendingAction' = "null"
    /\ UNCHANGED <<display, styleLeft, styleTop, zIndex, currentZIndex, zLog, loaded,
                   content, dragState, winListeners, pointer, innerWidth,
                   innerHeight, probe>>
    /\ UNCHANGED justOpened

\* The password branch without its querySelector('iframe') test.
passwordOpenAlwaysAppends(w) ==
    /\ display' = [display EXCEPT ![w] = "flex"]
    /\ SetPosition(w, <<DefaultPos(w), DefaultPos(w)>>)
    /\ zIndex' = [zIndex EXCEPT ![w] = PasswordZIndex]
    /\ appendIframe(w)

\* The branch of checkPassword that opens panel w.
passwordOpen(w) ==
    /\ display' = [display EXCEPT ![w] = "flex"]
    /\ SetPosition(w, <<DefaultPos(w), DefaultPos(w)>>)
    /\ zIndex' = [zIndex EXCEPT ![w] = PasswordZIndex]
    /\ IF content[w] = 0
       THEN appendIframe(w)
       ELSE UNCHANGED content

\* Submit button or Enter in the input.
checkPassword(correct) ==
    /\ modalDisplay = "flex"
    /\ IF correct
       THEN /\ modalDisplay' = "none"
            /\ pendingAction' = "null"
            /\ IF pendingAction \in {"tardtest", "apitest"}
               THEN passwordOpen(pendingAction)
               ELSE UNCHANGED <<display, styleLeft, styleTop, zIndex, content>>
       ELSE UNCHANGED <<modalDisplay, pendingAction, display, styleLeft, styleTop,
                        zIndex, content>>
    /\ UNCHANGED <<currentZIndex, zLog, loaded, dragState, winListeners, pointer,
                   innerWidth, innerHeight, probe>>
    /\ IF correct /\ pendingAction \in {"tardtest", "apitest"}
       THEN Interact(IF display[pendingAction] # "flex" THEN {pendingAction} ELSE {},
                     {pendingAction})
       ELSE UNCHANGED justOpened

-----------------------------------------------------------------------------

Next ==
    \/ onlineSelectChange
    \/ toggleTardTest
    \/ toggleAPITest
    \/ \E w \in windows : closeBtnClick(w)
    \/ \E w \in windows, target \in {"titlebar", "close", "body"}, pid \in Pointers,
          grab \in Grabs : PointerDown(w, target, pid, grab)
    \/ \E pt \in MovePoints : PointerMove(pt)
    \/ \E pid \in Pointers : PointerUp(pid)
    \/ \E pid \in Pointers : PointerCancel(pid)
    \/ \E vp \in Viewports : Resize(vp)
    \/ \E action \in {"tardtest", "apitest"} : devSelectChange(action)
    \/ hidePasswordModal
    \/ \E correct \in BOOLEAN : checkPassword(correct)

Spec == Init /\ [][Next]_vars

-----------------------------------------------------------------------------
(* The clamp as a function: arguments drawn at Init, applied once and then   *)
(* once more to its own result.                                              *)

\* Candidate coordinates: negative, unset/zero, the lower bounds, inside, the
\* upper bound of the wide viewport, beyond it.
ProbeCoords == {-50, 0, 4, 49, 100, 596, 700}

\* Viewports: roomy, the host window's minimum, exactly the footprint plus
\* margins, one pixel less, smaller than the footprint.
ProbeViewports == {<<800, 600>>, <<604, 600>>, <<208, 203>>, <<207, 202>>, <<150, 150>>}

\* kind "position": clampTardboardPosition / clampTardTestPosition /
\* clampAPITestPosition on a panel whose inline left/top are the candidate;
\* kind "drag": the clamp of dragMove on the candidate pointerX - offsetX.
probeApply(kind, w, disp, left, top, vp) ==
    IF kind = "position"
    THEN clampPosition(w, disp, left, top, vp[1], vp[2])
    ELSE Clamp(left, top, Rect(w, disp, left, top), vp[1], vp[2])

InitClamp ==
    /\ InitPanels
    /\ display = [w \in windows |-> "none"]
    /\ probe \in [stage : {0}, kind : {"position", "drag"}, w : windows,
                  disp : {"flex", "none"}, left : ProbeCoords, top : ProbeCoords,
                  vp : ProbeViewports, once : {<<0, 0>>}, twice : {<<0, 0>>}]

ClampOnce ==
    /\ probe.stage = 0
    /\ probe' = [probe EXCEPT !.stage = 1,
                   !.once = probeApply(probe.kind, probe.w, probe.disp, probe.left,
                                       probe.top, probe.vp)]
    /\ UNCHANGED panelVars

ClampTwice ==
    /\ probe.stage = 1
    /\ probe' = [probe EXCEPT !.stage = 2,
                   !.twice = probeApply(probe.kind, probe.w, probe.disp, probe.once[1],
                                        probe.once[2], probe.vp)]
    /\ UNCHANGED panelVars

NextClamp == ClampOnce \/ ClampTwice

ClampSpec == InitClamp /\ [][NextClamp]_vars

-----------------------------------------------------------------------------
(* Two pointers at once (mouse and a touch or pen contact) in the 800x600
   viewport: the panels' own open, close and pointer events. *)

InitTouch == InitWith(TouchPointers) /\ probe = NoProbe

NextTouch ==
    \/ onlineSelectChange
    \/ toggleTardTest
    \/ toggleAPITest
    \/ \E w \in windows : closeBtnClick(w)
    \/ \E w \in windows, target \in {"titlebar", "close", "body"}, pid \in TouchPointers,
          grab \in Grabs : PointerDown(w, target, pid, grab)
    \/ \E pt \in MovePoints : PointerMove(pt)
    \/ \E pid \in TouchPointers : PointerUp(pid)

TouchSpec == InitTouch /\ [][NextTouch]_vars

-----------------------------------------------------------------------------
(* The unlock modal with its keyboard: probe.esc counts, modulo 2, the Escape
   presses made in the password input. *)

InitModal == InitPanels /\ probe = [stage |-> 0, esc |-> 0]

\* Escape pressed in the password input while the modal is open.  The handler
\* listens for 'keypress', which an engine dispatches for keys that produce a
\* character; Chromium, which the Electron build runs on, dispatches none for
\* Escape, older engines did.
keypressEscape ==
    /\ modalDisplay = "flex"
    /\ probe' = [probe EXCEPT !.esc = 1 - @]
    /\ \E dispatched \in BOOLEAN :
          IF dispatched
          THEN modalDisplay' = "none" /\ pendingAction' = "null"
          ELSE UNCHANGED <<modalDisplay, pendingAction>>
    /\ UNCHANGED <<display, styleLeft, styleTop, zIndex, currentZIndex, zLog, loaded,
                   content, dragState, winListeners, pointer, innerWidth,
                   innerHeight, justOpened>>

NextModal ==
    \/ onlineSelectChange
    \/ toggleTardTest
    \/ toggleAPITest
    \/ \E w \in windows : closeBtnClick(w)
    \/ \E action \in {"tardtest", "apitest"} : devSelectChange(action)
    \/ hidePasswordModal
    \/ \E correct \in BOOLEAN : checkPassword(correct)
    \/ keypressEscape

ModalSpec == InitModal /\ [][NextModal]_vars

-----------------------------------------------------------------------------
(* Panels whose element is missing from the document: getElementById returned
   null for it, shown here as display "absent".  probe.error records an
   uncaught exception thrown by a listener. *)

Absent(w) == display[w] = "absent"

InitAbsent ==
    /\ display \in {d \in [windows -> {"none", "", "absent"}] : d["leaderboard"] # ""}
    /\ styleLeft = [w \in windows |-> 0]
    /\ styleTop = [w \in windows |-> 0]
    /\ zIndex = [w \in windows |-> 0]
    /\ currentZIndex = InitialZIndex
    /\ zLog = <<>>
    /\ loaded = [w \in windows |-> FALSE]
    /\ content = [w \in windows |-> 0]
    /\ dragState = [w \in windows |->
                      [isDragging |-> FALSE, dragOffsetX |-> 0, dragOffsetY |-> 0]]
    /\ winListeners = {}
    /\ pointer = [p \in Pointers |-> "none"]
    /\ innerWidth = 800
    /\ innerHeight = 600
    /\ pendingAction = "null"
    /\ modalDisplay = "none"
    /\ justOpened = [w \in windows |-> FALSE]
    /\ probe = [stage |-> 0, error |-> "none"]

\* A listener of panel w reads a property of null: its first statement,
\* '<panel>Window.style', throws and the listener ends there.
throwTypeError(w) ==
    /\ Absent(w)
    /\ probe' = [probe EXCEPT !.error = "TypeError"]
    /\ UNCHANGED panelVars

\* window 'resize' with elements missing: the listeners of the panels that
\* exist reclamp as ever, the listener of a missing panel throws.
resizeSomeAbsent(vp) ==
    LET reclamp(w) == ~Absent(w) /\ display[w] # "none"
        pos(w) == clampPosition(w, display[w], styleLeft[w], styleTop[w], vp[1], vp[2])
    IN
    /\ <<innerWidth, innerHeight>> # vp
    /\ innerWidth' = vp[1]
    /\ innerHeight' = vp[2]
    /\ styleLeft' = [w \in windows |-> IF reclamp(w) THEN pos(w)[1] ELSE styleLeft[w]]
    /\ styleTop' = [w \in windows |-> IF reclamp(w) THEN pos(w)[2] ELSE styleTop[w]]
    /\ probe' = IF \E w \in windows : Absent(w)
                THEN [probe EXCEPT !.error = "TypeError"]
                ELSE probe
    /\ UNCHANGED <<display, zIndex, currentZIndex, zLog, loaded, content, dragState,
                   winListeners, pointer, pendingAction, modalDisplay, justOpened>>

\* checkPassword with the pending panel missing: the modal closes and the
\* 'if (tardtestWindow)' / 'if (apitestWindow)' test skips the rest.
checkPasswordAbsent ==
    /\ modalDisplay = "flex"
    /\ pendingAction \in {"tardtest", "apitest"}
    /\ Absent(pendingAction)
    /\ modalDisplay' = "none"
    /\ pendingAction' = "null"
    /\ UNCHANGED <<display, styleLeft, styleTop, zIndex, currentZIndex, zLog, loaded,
                   content, dragState, winListeners, pointer, innerWidth,
                   innerHeight, justOpened, probe>>

NextAbsent ==
    \/ ~Absent("leaderboard") /\ onlineSelectChange
    \/ ~Absent("tardtest") /\ toggleTardTest
    \/ ~Absent("apitest") /\ toggleAPITest
    \/ \E w \in windows : throwTypeError(w)
    \/ \E w \in windows : closeBtnClick(w)
    \/ \E vp \in Viewports : resizeSomeAbsent(vp)
    \/ \E action \in {"tardtest", "apitest"} : devSelectChange(action)
    \/ hidePasswordModal
    \/ \E correct \in BOOLEAN :
          /\ ~(correct /\ pendingAction \in windows /\ Absent(pendingAction))
          /\ checkPassword(correct)
    \/ checkPasswordAbsent

AbsentSpec == InitAbsent /\ [][NextAbsent]_vars

-----------------------------------------------------------------------------
(* Properties *)

Shown(w) == display[w] = "flex"

Position(w) == Rect(w, display[w], styleLeft[w], styleTop[w])

WithinBounds(left, top, width, height, parentW, parentH) ==
    /\ border <= left
    /\ left <= Max(border, parentW - width - border)
    /\ topOffset + border <= top
    /\ top <= Max(topOffset + border, parentH - height - border)

\* The values bringWindowToFront assigned during the step.
AssignedInStep == {zLog'[i] : i \in (Len(zLog) + 1)..Len(zLog')}

\* An open request for panel w: dropdown selection, open event, or a correct
\* password with w pending.
OpenRequest(w) ==
    \/ w = "leaderboard" /\ onlineSelectChange
    \/ w = "tardtest" /\ toggleTardTest
    \/ w = "apitest" /\ toggleAPITest
    \/ pendingAction = w /\ checkPassword(TRUE)

\* C1: the zIndex values assigned by successive bringWindowToFront calls are
\* strictly increasing in call order, whichever panels the calls target; the
\* counter is the last value assigned and never falls below its start.
MonotonicStacking ==
    /\ \A i, j \in 1..Len(zLog) : i < j => zLog[i] < zLog[j]
    /\ currentZIndex >= InitialZIndex
    /\ Len(zLog) > 0 => zLog[Len(zLog)] = currentZIndex

\* Calls on two different panels: the leaderboard got the first value, a
\* tool panel the latest.
MonotonicStackingWitness ==
    /\ Len(zLog) >= 3
    /\ zIndex["leaderboard"] = zLog[1]
    /\ \E w \in windows \ {"leaderboard"} : zIndex[w] = zLog[Len(zLog)]

\* C2: every shown panel lies within the clamp bounds of the current viewport.
VisibleWithinBounds ==
    \A w \in windows :
        Shown(w) => WithinBounds(Position(w).left, Position(w).top, Position(w).width,
                                 Position(w).height, innerWidth, innerHeight)

\* C3: an open request on a panel whose latest interaction was an open request
\* that found it hidden leaves the panel hidden.
ToggleIsTrueToggle ==
    [][\A w \in windows : justOpened[w] /\ OpenRequest(w) => ~Shown(w)']_vars

\* C4: a panel that is not shown is unloaded and its content element is empty,
\* and every step that shows a panel finds the content element empty and
\* leaves exactly one iframe, created in that step, in it.
LazyLoadEagerUnload ==
    /\ [](\A w \in windows : ~Shown(w) => ~loaded[w] /\ content[w] = 0)
    /\ [][\A w \in windows :
            ~Shown(w) /\ Shown(w)' => content[w] = 0 /\ content'[w] = 1]_vars

\* The leaderboard was shown and focused, hidden, and has just been shown
\* again with a new iframe.
LazyLoadEagerUnloadWitness ==
    /\ justOpened["leaderboard"]
    /\ zIndex["leaderboard"] > 0
    /\ content["leaderboard"] = 1

\* C5: loaded is true exactly when the content element holds an iframe.
LoadedIffContent ==
    \A w \in windows : loaded[w] <=> content[w] > 0

\* C6: a panel that is not shown holds no iframe and a shown panel at most one,
\* so the iframes resident are no more than the panels shown.
ResidentContentBounded ==
    \A w \in windows : content[w] <= (IF Shown(w) THEN 1 ELSE 0)

\* All three panels shown with one iframe each, a tool panel opened by
\* password (its loaded flag is still false) and asked for again.
ResidentContentBoundedWitness ==
    /\ \A w \in windows : Shown(w) /\ content[w] = 1
    /\ ~loaded["tardtest"]
    /\ ~justOpened["tardtest"]
    /\ zIndex["tardtest"] = PasswordZIndex

\* C7: whenever a step changes a panel's zIndex, the new value is one that
\* bringWindowToFront assigned in that step.
ZIndexOnlyByBringToFront ==
    [][\A w \in windows : zIndex'[w] # zIndex[w] => zIndex'[w] \in AssignedInStep]_vars

\* C8: no two panels that have a zIndex hold the same one.
NoZIndexTies ==
    \A w1, w2 \in windows :
        w1 # w2 /\ zIndex[w1] # 0 /\ zIndex[w2] # 0 => zIndex[w1] # zIndex[w2]

\* C9: applying the clamp to its own result, with the same footprint and
\* viewport, gives that result again.
ClampIdempotent ==
    probe.stage = 2 => probe.twice = probe.once

\* Clamped twice in a viewport smaller than the footprint, the first clamp
\* having moved the panel.
ClampIdempotentWitness ==
    /\ probe.stage = 2
    /\ probe.disp = "flex"
    /\ probe.vp[1] < FootprintW
    /\ probe.once # <<probe.left, probe.top>>

\* C10: the clamp result lies between the lower bounds (border, topOffset +
\* border) and the upper bounds max(border, width - footprint - border),
\* max(topOffset + border, height - footprint - border); it is never negative.
ClampBounded ==
    probe.stage >= 1 =>
        LET rect == Rect(probe.w, probe.disp, probe.left, probe.top) IN
        /\ WithinBounds(probe.once[1], probe.once[2], rect.width, rect.height,
                        probe.vp[1], probe.vp[2])
        /\ probe.once[1] >= 0
        /\ probe.once[2] >= 0

\* A drag candidate beyond the right edge of a viewport narrower than the
\* footprint: the upper bound is below the lower one.
ClampBoundedWitness ==
    /\ probe.stage = 1
    /\ probe.kind = "drag"
    /\ probe.disp = "flex"
    /\ probe.left > probe.vp[1]
    /\ probe.vp[1] - FootprintW - border < border
    /\ probe.once = <<border, topOffset + border>>

\* A step in which the viewport reports another size.
ViewportResized == <<innerWidth, innerHeight>>' # <<innerWidth, innerHeight>>

\* C11: a resize to a viewport too small for the footprint (width - footprint
\* - border below border, height - footprint - border below topOffset +
\* border, as 150x150 is for 200x150) leaves every shown panel at exactly
\* (border, topOffset + border) in the same step.
ResizePinsToCorner ==
    [][\A w \in windows :
          /\ ViewportResized
          /\ Shown(w)
          /\ innerWidth' - FootprintW - border < border
          /\ innerHeight' - FootprintH - border < topOffset + border
          => /\ styleLeft'[w] = border
             /\ styleTop'[w] = topOffset + border]_vars

\* tardtest was opened by password (not loaded, so placed at its default with
\* no clamp), never dragged, and sits in the corner of the 150x150 viewport:
\* only a resize while it was shown put it there.
ResizePinsToCornerWitness ==
    /\ Shown("tardtest")
    /\ ~loaded["tardtest"]
    /\ dragState["tardtest"].dragOffsetX = 0
    /\ <<innerWidth, innerHeight>> = <<150, 150>>
    /\ <<styleLeft["tardtest"], styleTop["tardtest"]>> = <<border, topOffset + border>>

\* Where a pointer at pt puts panel w, given the offset its drag recorded:
\* the clamp of (pointer - offset) for the current footprint and viewport.
DragTarget(w, pt) ==
    LET fp == Position(w) IN
    << Max(border, Min(pt[1] - dragState[w].dragOffsetX, innerWidth - fp.width - border)),
       Max(topOffset + border,
           Min(pt[2] - dragState[w].dragOffsetY, innerHeight - fp.height - border)) >>

\* C12: a title-bar pointer-down records offset = pointer - position, and while
\* a panel is Dragging every pointer-move to (x1, y1) sets its position to
\* clamp(x1 - offsetX, y1 - offsetY) for the current footprint and viewport,
\* and changes nothing else.
DragFollowsPointer ==
    [][/\ \A w \in windows, pid \in Pointers, grab \in Grabs :
             PointerDown(w, "titlebar", pid, grab)
             => /\ dragState'[w].isDragging
                /\ dragState'[w].dragOffsetX = (Position(w).left + grab[1]) - Position(w).left
                /\ dragState'[w].dragOffsetY = (Position(w).top + grab[2]) - Position(w).top
       /\ \A pt \in MovePoints :
             PointerMove(pt)
             => /\ \A w \in windows :
                      <<styleLeft'[w], styleTop'[w]>> =
                          IF dragState[w].isDragging
                          THEN DragTarget(w, pt)
                          ELSE <<styleLeft[w], styleTop[w]>>
                /\ UNCHANGED <<display, zIndex, currentZIndex, zLog, loaded, content,
                               dragState, winListeners, pointer, innerWidth,
                               innerHeight, pendingAction, modalDisplay>>]_vars

\* apitest is shown and Dragging at (596, topOffset + border): a tool panel is
\* shown at its default, so only a pointer-move to (700, 50) put it there.
DragFollowsPointerWitness ==
    /\ Shown("apitest")
    /\ dragState["apitest"].isDragging
    /\ <<innerWidth, innerHeight>> = <<800, 600>>
    /\ <<styleLeft["apitest"], styleTop["apitest"]>> = <<596, topOffset + border>>

\* C13: with the top offset resizeFrame reserves (title bar plus toolbar, 43),
\* a shown panel at (100, 100) grabbed at (120, 110) in the 800x600 viewport
\* and moved to (700, 50) lands at exactly (596, 47), whichever panel it is.
DragExampleLandsAt47 ==
    [][\A w \in windows :
          /\ Shown(w)
          /\ <<Position(w).left, Position(w).top>> = <<100, 100>>
          /\ <<Position(w).width, Position(w).height>> = <<200, 150>>
          /\ dragState[w].isDragging
          /\ <<dragState[w].dragOffsetX, dragState[w].dragOffsetY>> = <<120 - 100, 110 - 100>>
          /\ <<innerWidth, innerHeight>> = <<800, 600>>
          /\ PointerMove(<<700, 50>>)
          => <<styleLeft'[w], styleTop'[w]>> =
                 <<596, titlebarHeight + resizeFrameToolbarHeight + border>>]_vars

\* C14: whenever a title bar loses the pointer capture of its drag, with or
\* without a pointer-up (cancel, device gone), the drag ends in that step:
\* the panel is Idle and its window listeners are removed.
CaptureLossEndsDrag ==
    [][\A pid \in DOMAIN pointer, w \in windows :
          pointer[pid] = w /\ pointer'[pid] # w
          => /\ ~dragState'[w].isDragging
             /\ w \notin winListeners']_vars

\* C15: the capture a title bar takes for pointer P at Idle -> Dragging is
\* released exactly once, for P, at Dragging -> Idle: the step that ends a
\* panel's drag releases the pointer its title bar holds, and a title bar
\* loses a pointer in no other step.
CaptureReleasedAtDragEnd ==
    [][\A w \in windows :
          /\ dragState[w].isDragging /\ ~dragState'[w].isDragging
             => /\ \E pid \in DOMAIN pointer : pointer[pid] = w
                /\ \A pid \in DOMAIN pointer : pointer'[pid] # w
          /\ \A pid \in DOMAIN pointer :
                pointer[pid] = w /\ pointer'[pid] # w
                => dragState[w].isDragging /\ ~dragState'[w].isDragging]_vars

\* The panels in the Dragging state.
Dragging == {w \in windows : dragState[w].isDragging}

\* C16: no reachable state has two panels Dragging at the same time, and one
\* pointer-move changes the position of at most one panel.
OneDragAtATime ==
    /\ [](Cardinality(Dragging) <= 1)
    /\ [][\A pt \in MovePoints :
             PointerMove(pt)
             => Cardinality({w \in windows :
                    <<styleLeft'[w], styleTop'[w]>> # <<styleLeft[w], styleTop[w]>>}) <= 1]_vars

\* C17: no event changes the position of a panel that is hidden before and
\* after it: not a pointer-move after the panel was hidden in the middle of a
\* drag, not a resize while it is hidden or was never shown.
HiddenPanelNeverMoves ==
    [][\A w \in windows :
          ~Shown(w) /\ ~Shown(w)'
          => <<styleLeft'[w], styleTop'[w]>> = <<styleLeft[w], styleTop[w]>>]_vars

\* C18: every step that takes a panel from hidden to visible, by whichever
\* path, applies bringToFront to it, so right after the show its zIndex was
\* assigned from the counter in that step and is strictly greater than every
\* other panel's.
ShowBringsToFront ==
    [][\A w \in windows :
          ~Shown(w) /\ Shown(w)'
          => /\ zIndex'[w] \in AssignedInStep
             /\ \A v \in windows \ {w} : zIndex'[w] > zIndex'[v]]_vars

\* C19: a pointer-up delivered while a panel is Dragging leaves it Idle with
\* no window pointer-move or pointer-up listener of it registered, and a
\* pointer-move does not change the position of an Idle panel (so none does
\* until a title-bar pointer-down starts a new drag).
PointerUpEndsDrag ==
    [][/\ \A pid \in Pointers :
             PointerUp(pid)
             => \A w \in Dragging :
                   ~dragState'[w].isDragging /\ w \notin winListeners'
       /\ \A pt \in MovePoints :
             PointerMove(pt)
             => \A w \in windows \ Dragging :
                   <<styleLeft'[w], styleTop'[w]>> = <<styleLeft[w], styleTop[w]>>]_vars

\* tardtest was dragged to (596, topOffset + border) and then let go: Idle,
\* with a recorded grab offset, no listener and no captured pointer left.
PointerUpEndsDragWitness ==
    /\ Shown("tardtest")
    /\ <<styleLeft["tardtest"], styleTop["tardtest"]>> = <<596, topOffset + border>>
    /\ dragState["tardtest"] = [isDragging |-> FALSE, dragOffsetX |-> 20, dragOffsetY |-> 10]
    /\ winListeners = {}
    /\ \A pid \in DOMAIN pointer : pointer[pid] = "none"

\* C20: a pointer-down on a panel's body outside its title bar raises that
\* panel's zIndex through bringToFront and changes nothing else: drag state
\* and listeners, positions, visibility, loaded content and the other
\* panels' zIndex stay as they were; for each of the three panels.
BodyPointerDownOnlyFocuses ==
    [][\A w \in windows, pid \in Pointers, grab \in Grabs :
          PointerDown(w, "body", pid, grab)
          => /\ zIndex'[w] \in AssignedInStep
             /\ zIndex'[w] = currentZIndex'
             /\ zIndex'[w] > zIndex[w]
             /\ \A v \in windows \ {w} : zIndex'[v] = zIndex[v]
             /\ UNCHANGED <<display, styleLeft, styleTop, loaded, content, dragState,
                            winListeners, pointer, innerWidth, innerHeight,
                            pendingAction, modalDisplay>>]_vars

\* The leaderboard and apitest are shown with a zIndex that only the counter
\* hands out (the leaderboard gets none otherwise, apitest's literals stop at
\* PasswordZIndex), neither was ever grabbed by its title bar and no listener
\* is registered: each got a pointer-down outside its drag handle.
BodyPointerDownOnlyFocusesWitness ==
    /\ Shown("leaderboard") /\ zIndex["leaderboard"] > InitialZIndex
    /\ Shown("apitest") /\ zIndex["apitest"] > PasswordZIndex
    /\ \A w \in {"leaderboard", "apitest"} :
          dragState[w] = [isDragging |-> FALSE, dragOffsetX |-> 0, dragOffsetY |-> 0]
    /\ winListeners = {}

\* C21: a resize leaves the zIndex, loaded flag and content, visibility and
\* drag state of every panel and the FocusStack counter as they were; only
\* positions may change.
ResizeOnlyMoves ==
    [][ViewportResized
       => UNCHANGED <<zIndex, currentZIndex, zLog, loaded, content, display,
                      dragState, winListeners, pointer>>]_vars

\* Back in the 800x600 viewport apitest is shown, loaded, raised from the
\* counter and mid-drag, yet in the corner, where neither a show (which puts
\* it at its default) nor a pointer-move of this viewport puts it: it was
\* pinned there in the small viewport and the resize to 800x600 acted on it
\* while it was shown.
ResizeOnlyMovesWitness ==
    /\ <<innerWidth, innerHeight>> = <<800, 600>>
    /\ Shown("apitest") /\ loaded["apitest"]
    /\ zIndex["apitest"] > PasswordZIndex
    /\ dragState["apitest"].isDragging
    /\ <<styleLeft["apitest"], styleTop["apitest"]>> = <<border, topOffset + border>>

\* The right-edge position of the 800x600 viewport, where a drag to (700, 50)
\* leaves a shown panel.  A hidden panel keeps it only from before its hide:
\* moved while hidden, its 0x0 rect lets it go on to 680.
DraggedToEdge(w) == <<styleLeft[w], styleTop[w]>> = <<596, topOffset + border>>

\* C22: show and hide toggle only visibility and loaded content: hiding a
\* panel keeps its position, and with the viewport unchanged (800x600
\* throughout) a panel hidden at the right edge is back at the right edge
\* when it is shown again, not at its default.
HideShowKeepsPosition ==
    [][\A w \in windows :
          /\ Shown(w) /\ ~Shown(w)'
             => <<styleLeft'[w], styleTop'[w]>> = <<styleLeft[w], styleTop[w]>>
          /\ ~Shown(w) /\ Shown(w)' /\ DraggedToEdge(w)
             => DraggedToEdge(w)']_vars

\* What the unlock flow could touch of panel w.
PanelFields(w) ==
    <<display[w], styleLeft[w], styleTop[w], zIndex[w], content[w], loaded[w]>>

\* C23: through the unlock UI a panel changes only when the correct password
\* is submitted while it is the pending action, and no other panel changes
\* then; choosing a tool, a wrong password, and cancel / Escape / a click on
\* the backdrop change no panel, and after cancel, after a backdrop click and
\* after Escape (the steps that change probe) no action is pending.
UnlockGateSafe ==
    [][/\ \A correct \in BOOLEAN :
             checkPassword(correct)
             => \A w \in windows :
                   PanelFields(w)' # PanelFields(w) => correct /\ pendingAction = w
       /\ hidePasswordModal \/ probe' # probe
          => /\ \A w \in windows : PanelFields(w)' = PanelFields(w)
             /\ pendingAction' = "null"
       /\ \A action \in {"tardtest", "apitest"} :
             devSelectChange(action)
             => \A w \in windows : PanelFields(w)' = PanelFields(w)]_vars

\* C24: a pointer-down whose target is a panel's close control starts no
\* drag: the drag flag and offset, the pointer captures and the window
\* listeners are as before.
CloseControlStartsNoDrag ==
    [][\A w \in windows, pid \in Pointers, grab \in Grabs :
          PointerDown(w, "close", pid, grab)
          => UNCHANGED <<dragState, winListeners, pointer>>]_vars

\* tardtest, opened by the password (shown, not loaded, literal zIndex), has
\* since been raised by the two focus listeners of its panel element, with no
\* offset ever recorded, no capture and no listener: a pointer-down reached the
\* panel without starting a drag.
CloseControlStartsNoDragWitness ==
    /\ Shown("tardtest") /\ ~loaded["tardtest"]
    /\ zIndex["tardtest"] = InitialZIndex + 2
    /\ zLog = <<InitialZIndex + 1, InitialZIndex + 2>>
    /\ dragState["tardtest"] = [isDragging |-> FALSE, dragOffsetX |-> 0, dragOffsetY |-> 0]
    /\ winListeners = {}
    /\ \A pid \in DOMAIN pointer : pointer[pid] = "none"

\* C25: with a panel's element missing, every operation that depends on it
\* (its toggle or open, its clamp on show or resize, its focus setup, its
\* password-gated open) raises no error and changes nothing of that panel.
AbsentElementNoOp ==
    /\ [](probe.error = "none")
    /\ [][\A w \in windows : Absent(w) => PanelFields(w)' = PanelFields(w)]_vars

\* C26: in every reachable state a panel's isDragging flag is true exactly
\* when its pointer-move and pointer-up handlers are registered on window (so
\* a registered drag-move handler always finds the flag set, and a repeated
\* title-bar pointer-down leaves the one registration there is).
DraggingIffListening ==
    \A w \in windows : dragState[w].isDragging <=> w \in winListeners

\* The leaderboard is Dragging and registered, holding the pointer, after two
\* pointer-downs of its own and none on any other panel: the pointer of its
\* earlier grab went away with no pointer-up, and it was grabbed again.
DraggingIffListeningWitness ==
    /\ dragState["leaderboard"].isDragging
    /\ "leaderboard" \in winListeners
    /\ \E pid \in DOMAIN pointer : pointer[pid] = "leaderboard"
    /\ zLog = <<InitialZIndex + 1, InitialZIndex + 2>>
    /\ zIndex = [w \in windows |-> IF w = "leaderboard" THEN InitialZIndex + 2 ELSE 0]

====
